---- MODULE Spec2Model ----
(***************************************************************************)
(* ThreadsafeQueue<T> (include/threadsafe_queue.hpp): a linked queue with  *)
(* a sentinel node, one mutex per end and a condition variable, and the    *)
(* ThreadPool built on it (thread_pool.hpp).  Every statement that touches *)
(* shared state is one step of the calling thread.                         *)
(***************************************************************************)
EXTENDS Integers, Sequences, FiniteSets, Bags

\* ---------------------------------------------------------------- bounds
MaxPush == 3
MaxPops == 2
MaxSeq == 3
MaxHW == 2
MaxSubmit == 2

\* ------------------------------------------------------------- constants
Free == 0
Null == 0
NoValue == 0
Moved == -1

Producers == {1, 2}
Single == Cardinality(Producers) + 1
Consumers == {Single + 1, Single + 2}
Workers == {10 + i : i \in 1..MaxHW}
Threads == Producers \cup {Single} \cup Consumers \cup Workers

Values == 1..2
Max(a, b) == IF a > b THEN a ELSE b
MaxAlloc == Max(MaxPush, Max(MaxSeq, MaxSubmit))
MaxNodes == 1 + 3 * MaxAlloc

PopOps == {"try_pop", "try_pop_ref", "wait_and_pop", "wait_and_pop_ref"}
TryOps == {"try_pop", "try_pop_ref"}
WaitOps == {"wait_and_pop", "wait_and_pop_ref"}
RefOps == {"try_pop_ref", "wait_and_pop_ref"}
ConsumerOps == PopOps \cup {"empty"}

Call(o, v) == [op |-> o, v |-> v]

VARIABLES
  head, tail, data, next, nalloc,      \* the node chain, nodes allocated per thread
  head_mutex, tail_mutex, waiters,     \* the mutexes' owners, data_cond's wait set
  pc, op, todo, rets,                  \* per thread: position, call, program, results
  quota,                               \* calls the clients may still start, by kind
  new_value, p, value, old_head,       \* per thread: locals of the call in progress
  pushed, removed, returned            \* history: the bags of values linked, unlinked, returned

VARIABLES
  done, poolpc, thread_count, threads, \* the flag, the pool's life, hardware_concurrency(), the vector
  joined, destroyed,                   \* threads joined by ~JoinThreads, members destroyed
  fut, invoked,                        \* per task: its future; the bag of the tasks' calls
  lateBy, queuedAtStop, pcAtStop       \* history: who entered a task after done became true;
                                       \* the queue and the workers' positions at that moment

qvars == <<head, tail, data, next, nalloc, head_mutex, tail_mutex, waiters>>
tvars == <<pc, op, todo, rets, quota, new_value, p, value, old_head>>
hvars == <<pushed, removed, returned>>
pvars == <<done, poolpc, thread_count, threads, joined, destroyed,
           fut, invoked, lateBy, queuedAtStop, pcAtStop>>
vars == <<qvars, tvars, hvars, pvars>>

\* ------------------------------------------------------------ the queue
\* ThreadsafeQueue(): head(new node), tail(head.get())
QueueInit ==
  /\ head = 1
  /\ tail = 1
  /\ data = [n \in 0..MaxNodes |-> NoValue]
  /\ next = [n \in 0..MaxNodes |-> Null]
  /\ nalloc = [t \in 1..3 |-> 0]
  /\ head_mutex = Free
  /\ tail_mutex = Free
  /\ waiters = {}

\* the tasks callers submit, named by caller and position
Tasks == {10 * c + k : c \in Producers, k \in 1..MaxAlloc}

\* no pool: the queue is used on its own
NoPool ==
  /\ done = FALSE
  /\ poolpc = "none"
  /\ thread_count = 0
  /\ threads = <<>>
  /\ joined = 0
  /\ destroyed = 0
  /\ fut = [k \in Tasks |-> "none"]
  /\ invoked = EmptyBag
  /\ lateBy = [k \in Tasks |-> Free]
  /\ queuedAtStop = {}
  /\ pcAtStop = [w \in Workers |-> "none"]

ThreadInit ==
  /\ pc = [t \in Threads |-> "idle"]
  /\ op = [t \in Threads |-> "none"]
  /\ rets = [t \in Threads |-> <<>>]
  /\ new_value = [t \in Threads |-> NoValue]
  /\ p = [t \in Threads |-> Null]
  /\ value = [t \in Threads |-> NoValue]
  /\ old_head = [t \in Threads |-> Null]
  /\ pushed = EmptyBag
  /\ removed = EmptyBag
  /\ returned = EmptyBag

\* what a finished call leaves with its caller: the call, its return value
\* (a non-null pointer or true), and the value obtained
Result(o, ok, v) == [op |-> o, ok |-> ok, v |-> v]

\* where the caller continues after a pop-family call returns
\* (ThreadPool::worker_thread branches on try_pop's result)
RetPc(t, ok) ==
  IF t \in Workers THEN (IF ok THEN "invoke" ELSE "yield") ELSE "idle"

\* the sequential client keeps the results of its calls
Record(t, r) ==
  IF t = Single THEN [rets EXCEPT ![t] = Append(@, r)] ELSE rets

\* the address operator new gives thread t for its next node
NewNode(t) == 1 + (t - 1) * MaxAlloc + nalloc[t] + 1

Kind(o) == IF o = "push" THEN "push" ELSE "pop"

\* a client thread starts the next call of its program (a consumer's is one
\* choice of calls, repeated while the quota lasts); push allocates the data
\* cell and the new sentinel before taking any lock
Begin(t) ==
  /\ pc[t] = "idle"
  /\ UNCHANGED pvars
  /\ todo[t] # <<>>
  /\ \E c \in Head(todo[t]) :
       /\ quota[Kind(c.op)] > 0
       /\ quota' = [quota EXCEPT ![Kind(c.op)] = @ - 1]
       /\ op' = [op EXCEPT ![t] = c.op]
       /\ new_value' = [new_value EXCEPT ![t] = c.v]
       /\ IF c.op = "push"
            THEN /\ nalloc' = [nalloc EXCEPT ![t] = @ + 1]
                 /\ p' = [p EXCEPT ![t] = NewNode(t)]
                 /\ pc' = [pc EXCEPT ![t] = "push_lock"]
            ELSE /\ UNCHANGED <<nalloc, p>>
                 /\ pc' = [pc EXCEPT ![t] = "lock_head"]
  /\ todo' = [todo EXCEPT ![t] = IF t \in Consumers THEN @ ELSE Tail(@)]
  /\ UNCHANGED <<head, tail, data, next, head_mutex, tail_mutex, waiters>>
  /\ UNCHANGED <<rets, value, old_head, hvars>>

\* push locking tail_mutex and then head_mutex as well
PushLock_both(t) ==
  /\ pc[t] = "push_lock"
  /\ UNCHANGED pvars
  /\ IF tail_mutex # t
       THEN /\ tail_mutex = Free
            /\ tail_mutex' = t
            /\ UNCHANGED <<head_mutex, pc>>
       ELSE /\ head_mutex = Free
            /\ head_mutex' = t
            /\ pc' = [pc EXCEPT ![t] = "push_link"]
            /\ UNCHANGED tail_mutex
  /\ UNCHANGED <<head, tail, data, next, nalloc, waiters>>
  /\ UNCHANGED <<op, todo, quota, rets, new_value, p, value, old_head, hvars>>

\* push without the lock_guard on tail_mutex
PushLock_none(t) ==
  /\ pc[t] = "push_lock"
  /\ UNCHANGED pvars
  /\ tail_mutex' = tail_mutex
  /\ pc' = [pc EXCEPT ![t] = "push_link"]
  /\ UNCHANGED <<head, tail, data, next, nalloc, head_mutex, waiters>>
  /\ UNCHANGED <<op, todo, quota, rets, new_value, p, value, old_head, hvars>>

\* push: std::lock_guard<std::mutex> tail_lock(tail_mutex)
PushLock(t) ==
  /\ pc[t] = "push_lock"
  /\ UNCHANGED pvars
  /\ tail_mutex = Free
  /\ tail_mutex' = t
  /\ pc' = [pc EXCEPT ![t] = "push_link"]
  /\ UNCHANGED <<head, tail, data, next, nalloc, head_mutex, waiters>>
  /\ UNCHANGED <<op, todo, quota, rets, new_value, p, value, old_head, hvars>>

\* push storing the value in the new node instead of the old tail
PushLink_dataOnNew(t) ==
  /\ pc[t] = "push_link"
  /\ UNCHANGED pvars
  /\ data' = [data EXCEPT ![p[t]] = new_value[t]]
  /\ next' = [next EXCEPT ![tail] = p[t]]
  /\ tail' = p[t]
  /\ tail_mutex' = Free
  /\ pushed' = pushed (+) SetToBag({new_value[t]})
  /\ pc' = [pc EXCEPT ![t] = "push_notify"]
  /\ UNCHANGED <<head, nalloc, head_mutex, waiters>>
  /\ UNCHANGED <<op, todo, quota, rets, new_value, p, value, old_head, removed, returned>>

\* push: tail->data = new_data; tail->next = std::move(p); tail = new_tail;
\* and the end of the locked block
PushLink(t) ==
  /\ pc[t] = "push_link"
  /\ UNCHANGED pvars
  /\ data' = [data EXCEPT ![tail] = new_value[t]]
  /\ next' = [next EXCEPT ![tail] = p[t]]
  /\ tail' = p[t]
  /\ tail_mutex' = Free
  /\ pushed' = pushed (+) SetToBag({new_value[t]})
  /\ pc' = [pc EXCEPT ![t] = "push_notify"]
  /\ UNCHANGED <<head, nalloc, head_mutex, waiters>>
  /\ UNCHANGED <<op, todo, quota, rets, new_value, p, value, old_head, removed, returned>>

\* the threads data_cond.notify_one() may wake: one of those blocked in
\* wait(), or nobody when none is
Notified == IF waiters = {} THEN {Free} ELSE waiters

\* push: data_cond.notify_one(), after the tail lock is released; push returns
PushNotify(t) ==
  /\ pc[t] = "push_notify"
  /\ UNCHANGED pvars
  /\ \E w \in Notified :
       /\ waiters' = waiters \ {w}
       /\ pc' = [x \in Threads |->
                   IF x = t THEN "idle"
                   ELSE IF x = w THEN "cv_relock" ELSE pc[x]]
  /\ rets' = Record(t, Result("push", TRUE, new_value[t]))
  /\ op' = [op EXCEPT ![t] = "none"]
  /\ new_value' = [new_value EXCEPT ![t] = NoValue]
  /\ p' = [p EXCEPT ![t] = Null]
  /\ UNCHANGED <<head, tail, data, next, nalloc, head_mutex, tail_mutex>>
  /\ UNCHANGED <<todo, quota, value, old_head, hvars>>

\* try_pop_head / wait_for_data / empty: the lock on head_mutex
LockHead(t) ==
  /\ pc[t] = "lock_head"
  /\ UNCHANGED pvars
  /\ head_mutex = Free
  /\ head_mutex' = t
  /\ pc' = [pc EXCEPT ![t] = "get_tail"]
  /\ UNCHANGED <<head, tail, data, next, nalloc, tail_mutex, waiters>>
  /\ UNCHANGED <<op, todo, quota, rets, new_value, p, value, old_head, hvars>>

\* get_tail: std::lock_guard<std::mutex> tail_lock(tail_mutex)
GetTailLock(t) ==
  /\ pc[t] = "get_tail"
  /\ UNCHANGED pvars
  /\ tail_mutex = Free
  /\ tail_mutex' = t
  /\ pc' = [pc EXCEPT ![t] = "get_tail_ret"]
  /\ UNCHANGED <<head, tail, data, next, nalloc, head_mutex, waiters>>
  /\ UNCHANGED <<op, todo, quota, rets, new_value, p, value, old_head, hvars>>

\* the emptiness test of a queue without a sentinel: a null head
HeadIsTail_null == head = Null

\* head.get()==get_tail(), from get_tail's "return tail" on: the tail pointer
\* read under the tail lock, compared with head after the lock's release.
\* head_mutex is held, so head is the same at both moments.
HeadIsTail == head = tail

\* try_pop_head without the test for an empty queue
TryPopTest_noTest(t) ==
  /\ pc[t] = "get_tail_ret"
  /\ UNCHANGED pvars
  /\ op[t] \in TryOps
  /\ tail_mutex' = Free
  /\ pc' = [pc EXCEPT ![t] = "pop_head"]
  /\ UNCHANGED <<head, tail, data, next, nalloc, head_mutex, waiters>>
  /\ UNCHANGED <<op, todo, quota, rets, new_value, p, value, old_head, hvars>>

\* try_pop_head written with wait_for_data: it waits when the queue is empty
TryPopTest_waits(t) ==
  /\ pc[t] = "get_tail_ret"
  /\ UNCHANGED pvars
  /\ op[t] \in TryOps
  /\ tail_mutex' = Free
  /\ pc' = [pc EXCEPT ![t] = IF HeadIsTail THEN "cv_wait" ELSE "pop_head"]
  /\ UNCHANGED <<head, tail, data, next, nalloc, head_mutex, waiters>>
  /\ UNCHANGED <<op, todo, quota, rets, new_value, p, value, old_head, hvars>>

\* try_pop_head: if(head.get()==get_tail()) return std::unique_ptr<node>();
\* try_pop then returns a null pointer / false
TryPopTest(t) ==
  /\ pc[t] = "get_tail_ret"
  /\ UNCHANGED pvars
  /\ op[t] \in TryOps
  /\ tail_mutex' = Free
  /\ IF HeadIsTail
       THEN /\ head_mutex' = Free
            /\ pc' = [pc EXCEPT ![t] = RetPc(t, FALSE)]
            /\ rets' = Record(t, Result(op[t], FALSE,
                         IF op[t] \in RefOps THEN value[t] ELSE NoValue))
            /\ op' = [op EXCEPT ![t] = "none"]
       ELSE /\ pc' = [pc EXCEPT ![t] = "pop_head"]
            /\ UNCHANGED <<head_mutex, rets, op>>
  /\ UNCHANGED <<head, tail, data, next, nalloc, waiters>>
  /\ UNCHANGED <<todo, quota, new_value, p, value, old_head, hvars>>

\* a predicate that reads tail with the tail lock still held afterwards
WaitPred_keepsTail(t) ==
  /\ pc[t] = "get_tail_ret"
  /\ UNCHANGED pvars
  /\ op[t] \in WaitOps
  /\ tail_mutex' = tail_mutex
  /\ pc' = [pc EXCEPT ![t] = IF HeadIsTail THEN "cv_wait" ELSE "pop_head"]
  /\ UNCHANGED <<head, tail, data, next, nalloc, head_mutex, waiters>>
  /\ UNCHANGED <<op, todo, quota, rets, new_value, p, value, old_head, hvars>>

\* wait_for_data: the predicate of data_cond.wait, head.get()!=get_tail()
WaitPred(t) ==
  /\ pc[t] = "get_tail_ret"
  /\ UNCHANGED pvars
  /\ op[t] \in WaitOps
  /\ tail_mutex' = Free
  /\ pc' = [pc EXCEPT ![t] = IF HeadIsTail THEN "cv_wait" ELSE "pop_head"]
  /\ UNCHANGED <<head, tail, data, next, nalloc, head_mutex, waiters>>
  /\ UNCHANGED <<op, todo, quota, rets, new_value, p, value, old_head, hvars>>

\* data_cond.wait: release head_mutex and block, atomically
CvWait(t) ==
  /\ pc[t] = "cv_wait"
  /\ UNCHANGED pvars
  /\ head_mutex' = Free
  /\ waiters' = waiters \cup {t}
  /\ pc' = [pc EXCEPT ![t] = "cv_sleep"]
  /\ UNCHANGED <<head, tail, data, next, nalloc, tail_mutex>>
  /\ UNCHANGED <<op, todo, quota, rets, new_value, p, value, old_head, hvars>>

\* std::condition_variable::wait may wake without a notification
SpuriousWake(t) ==
  /\ pc[t] = "cv_sleep"
  /\ UNCHANGED pvars
  /\ t \in waiters
  /\ waiters' = waiters \ {t}
  /\ pc' = [pc EXCEPT ![t] = "cv_relock"]
  /\ UNCHANGED <<head, tail, data, next, nalloc, head_mutex, tail_mutex>>
  /\ UNCHANGED <<op, todo, quota, rets, new_value, p, value, old_head, hvars>>

\* data_cond.wait: re-acquire head_mutex after waking, then test again
CvRelock(t) ==
  /\ pc[t] = "cv_relock"
  /\ UNCHANGED pvars
  /\ head_mutex = Free
  /\ head_mutex' = t
  /\ pc' = [pc EXCEPT ![t] = "get_tail"]
  /\ UNCHANGED <<head, tail, data, next, nalloc, tail_mutex, waiters>>
  /\ UNCHANGED <<op, todo, quota, rets, new_value, p, value, old_head, hvars>>

\* pop_head with head=std::move(old_head->next->next)
PopHead_skip(t) ==
  /\ pc[t] = "pop_head"
  /\ UNCHANGED pvars
  /\ IF op[t] \in RefOps
       THEN /\ value' = [value EXCEPT ![t] = data[head]]
            /\ data' = [data EXCEPT ![head] = Moved]
       ELSE UNCHANGED <<value, data>>
  /\ old_head' = [old_head EXCEPT ![t] = head]
  /\ head' = next[next[head]]
  /\ next' = [next EXCEPT ![head] = Null]
  /\ removed' = removed (+) SetToBag({data[head]})
  /\ pc' = [pc EXCEPT ![t] = "unlock_head"]
  /\ UNCHANGED <<tail, nalloc, head_mutex, tail_mutex, waiters>>
  /\ UNCHANGED <<op, todo, quota, rets, new_value, p, pushed, returned>>

\* try_pop_head(T&) / wait_pop_head(T&): value=std::move(*head->data), which
\* leaves the node's data moved-from; the other overloads leave it in place
\* pop_head: old_head=std::move(head); head=std::move(old_head->next)
PopHead(t) ==
  /\ pc[t] = "pop_head"
  /\ UNCHANGED pvars
  /\ IF op[t] \in RefOps
       THEN /\ value' = [value EXCEPT ![t] = data[head]]
            /\ data' = [data EXCEPT ![head] = Moved]
       ELSE UNCHANGED <<value, data>>
  /\ old_head' = [old_head EXCEPT ![t] = head]
  /\ head' = next[head]
  /\ next' = [next EXCEPT ![head] = Null]
  /\ removed' = removed (+) SetToBag({data[head]})
  /\ pc' = [pc EXCEPT ![t] = "unlock_head"]
  /\ UNCHANGED <<tail, nalloc, head_mutex, tail_mutex, waiters>>
  /\ UNCHANGED <<op, todo, quota, rets, new_value, p, pushed, returned>>

\* try_pop returning head->data, the new head's, for old_head->data
Returns_head(t) == IF op[t] \in RefOps THEN value[t] ELSE data[head]

\* the value a pop hands to its caller: the T& overloads through the
\* reference, the others through old_head->data
Returns(t) == IF op[t] \in RefOps THEN value[t] ELSE data[old_head[t]]

\* the pointer overloads: try_pop_head() / wait_pop_head() return old_head,
\* releasing the head lock; try_pop / wait_and_pop has old_head->data to read
PopUnlock(t) ==
  /\ pc[t] = "unlock_head"
  /\ UNCHANGED pvars
  /\ op[t] \notin RefOps
  /\ head_mutex' = Free
  /\ pc' = [pc EXCEPT ![t] = "ret_data"]
  /\ UNCHANGED <<head, tail, data, next, nalloc, tail_mutex, waiters>>
  /\ UNCHANGED <<op, todo, quota, rets, new_value, p, value, old_head, hvars>>

\* try_pop / wait_and_pop: return old_head->data, read after the head lock's
\* release, or return true, the T& overloads' lock released on the way;
\* old_head's node is deleted.  A client's out-variable ends with the call
\* site (its content is in the recorded result); a worker's task lives on to
\* be invoked.
PopReturn(t) ==
  /\ \/ pc[t] = "unlock_head" /\ op[t] \in RefOps /\ head_mutex' = Free
     \/ pc[t] = "ret_data" /\ UNCHANGED head_mutex
  /\ UNCHANGED pvars
  /\ rets' = Record(t, Result(op[t], old_head[t] # Null, Returns(t)))
  /\ pc' = [pc EXCEPT ![t] = RetPc(t, old_head[t] # Null)]
  /\ returned' = returned (+) SetToBag({Returns(t)})
  /\ op' = [op EXCEPT ![t] = "none"]
  /\ old_head' = [old_head EXCEPT ![t] = Null]
  /\ value' = [value EXCEPT ![t] = IF t \in Workers THEN @ ELSE NoValue]
  /\ data' = [data EXCEPT ![old_head[t]] = NoValue]
  /\ UNCHANGED <<head, tail, next, nalloc, tail_mutex, waiters>>
  /\ UNCHANGED <<todo, quota, new_value, p, pushed, removed>>

\* empty returning head.get()!=get_tail()
EmptyRet_negated(t) ==
  /\ pc[t] = "get_tail_ret"
  /\ UNCHANGED pvars
  /\ op[t] = "empty"
  /\ tail_mutex' = Free
  /\ head_mutex' = Free
  /\ rets' = Record(t, Result("empty", ~HeadIsTail, NoValue))
  /\ pc' = [pc EXCEPT ![t] = "idle"]
  /\ op' = [op EXCEPT ![t] = "none"]
  /\ UNCHANGED <<head, tail, data, next, nalloc, waiters>>
  /\ UNCHANGED <<todo, quota, new_value, p, value, old_head, hvars>>

\* empty: return (head.get()==get_tail())
EmptyRet(t) ==
  /\ pc[t] = "get_tail_ret"
  /\ UNCHANGED pvars
  /\ op[t] = "empty"
  /\ tail_mutex' = Free
  /\ head_mutex' = Free
  /\ rets' = Record(t, Result("empty", HeadIsTail, NoValue))
  /\ pc' = [pc EXCEPT ![t] = "idle"]
  /\ op' = [op EXCEPT ![t] = "none"]
  /\ UNCHANGED <<head, tail, data, next, nalloc, waiters>>
  /\ UNCHANGED <<todo, quota, new_value, p, value, old_head, hvars>>

\* ------------------------------------------------- the queue among threads

\* producers push distinct values; consumers call any of the other operations
PushProgram(t) == [k \in 1..MaxPush |-> {Call("push", 10 * t + k)}]
ConsumerProgram == <<{Call(o, NoValue) : o \in ConsumerOps}>>

Init ==
  /\ QueueInit
  /\ ThreadInit
  /\ NoPool
  /\ quota = [push |-> MaxPush, pop |-> MaxPops]
  /\ todo = [t \in Threads |->
               IF t \in Producers THEN PushProgram(t)
               ELSE IF t \in Consumers THEN ConsumerProgram ELSE <<>>]

Next ==
  \E t \in Threads :
    \/ Begin(t)
    \/ PushLock(t) \/ PushLink(t) \/ PushNotify(t)
    \/ LockHead(t) \/ GetTailLock(t)
    \/ TryPopTest(t) \/ WaitPred(t) \/ EmptyRet(t)
    \/ CvWait(t) \/ SpuriousWake(t) \/ CvRelock(t)
    \/ PopHead(t) \/ PopUnlock(t) \/ PopReturn(t)

Spec == Init /\ [][Next]_vars

\* ------------------------------------------------ the queue on one thread
\* push v1..vN, then N + 1 try_pop calls (either overload), then empty()
SeqProgram(vs) ==
  [k \in 1..(2 * Len(vs) + 2) |->
     IF k <= Len(vs) THEN {Call("push", vs[k])}
     ELSE IF k <= 2 * Len(vs) + 1 THEN {Call(o, NoValue) : o \in TryOps}
     ELSE {Call("empty", NoValue)}]

SeqInit ==
  /\ QueueInit
  /\ ThreadInit
  /\ NoPool
  /\ NoPool
  /\ quota = [push |-> MaxSeq, pop |-> MaxSeq + 2]
  /\ \E n \in 0..MaxSeq : \E vs \in [1..n -> Values] :
       todo = [t \in Threads |-> IF t = Single THEN SeqProgram(vs) ELSE <<>>]

SeqNext ==
  \/ Begin(Single)
  \/ PushLock(Single) \/ PushLink(Single) \/ PushNotify(Single)
  \/ LockHead(Single) \/ GetTailLock(Single)
  \/ TryPopTest(Single) \/ EmptyRet(Single)
  \/ PopHead(Single) \/ PopUnlock(Single) \/ PopReturn(Single)

SeqSpec == SeqInit /\ [][SeqNext]_vars

\* any MixLen calls on one thread: push (MaxSeq at most), try_pop and
\* wait_and_pop (either overload), empty().  wait_and_pop on the empty queue
\* does not return: nobody else pushes.
MixLen == MaxSeq + 2
MixCalls ==
  {Call("push", v) : v \in Values} \cup {Call(o, NoValue) : o \in ConsumerOps}

MixInit ==
  /\ QueueInit
  /\ ThreadInit
  /\ NoPool
  /\ quota = [push |-> MaxSeq, pop |-> MixLen]
  /\ todo = [t \in Threads |-> IF t = Single THEN [k \in 1..MixLen |-> MixCalls] ELSE <<>>]

MixNext ==
  \/ Begin(Single)
  \/ PushLock(Single) \/ PushLink(Single) \/ PushNotify(Single)
  \/ LockHead(Single) \/ GetTailLock(Single)
  \/ TryPopTest(Single) \/ WaitPred(Single) \/ EmptyRet(Single)
  \/ CvWait(Single) \/ SpuriousWake(Single) \/ CvRelock(Single)
  \/ PopHead(Single) \/ PopUnlock(Single) \/ PopReturn(Single)

MixSpec == MixInit /\ [][MixNext]_vars

\* ------------------------------------- one blocking consumer and producers
Waiter == CHOOSE t \in Consumers : \A u \in Consumers : t <= u

WaitInit ==
  /\ QueueInit
  /\ ThreadInit
  /\ NoPool
  /\ NoPool
  /\ quota = [push |-> MaxPush, pop |-> 1]
  /\ todo = [t \in Threads |->
               IF t \in Producers THEN PushProgram(t)
               ELSE IF t = Waiter THEN <<{Call(o, NoValue) : o \in WaitOps}>>
               ELSE <<>>]

WaitNext ==
  \E t \in Producers \cup {Waiter} :
    \/ Begin(t)
    \/ PushLock(t) \/ PushLink(t) \/ PushNotify(t)
    \/ LockHead(t) \/ GetTailLock(t) \/ WaitPred(t)
    \/ CvWait(t) \/ SpuriousWake(t) \/ CvRelock(t)
    \/ PopHead(t) \/ PopUnlock(t) \/ PopReturn(t)

WaitSpec == WaitInit /\ [][WaitNext]_vars

\* every step of a thread but the wake-up nobody sent; a mutex is handed to
\* each thread that keeps asking for it
Step(t) ==
  \/ Begin(t)
  \/ PushLink(t) \/ PushNotify(t)
  \/ WaitPred(t) \/ CvWait(t)
  \/ PopHead(t) \/ PopUnlock(t) \/ PopReturn(t)

Acquire(t) == PushLock(t) \/ LockHead(t) \/ GetTailLock(t) \/ CvRelock(t)

WaitFairSpec ==
  /\ WaitSpec
  /\ \A t \in Producers \cup {Waiter} : WF_vars(Step(t)) /\ SF_vars(Acquire(t))

\* --------------------------------------------------------- the thread pool
RECURSIVE Chain(_, _)
\* the nodes reachable from n by next links (at most k of them)
Chain(n, k) == IF n = Null \/ k = 0 THEN <<>> ELSE <<n>> \o Chain(next[n], k - 1)

RECURSIVE BagOf(_)
BagOf(s) == IF s = <<>> THEN EmptyBag ELSE SetToBag({Head(s)}) (+) BagOf(Tail(s))

\* the values in the queue: the data of every node of the chain before tail
Queued == SelectSeq(Chain(head, MaxNodes), LAMBDA n : n # tail)
InQueue == BagOf([i \in 1..Len(Queued) |-> data[Queued[i]]])

\* joiner declared before the queue, so destroyed after it
DeclOrder_joinerEarly == <<"done", "joiner", "work_queue", "threads">>

\* class ThreadPool's data members, in the order of their declaration;
\* they are destroyed in the reverse order, after the destructor's body
DeclOrder == <<"done", "work_queue", "threads", "joiner">>
DestroyOrder == [i \in 1..Len(DeclOrder) |-> DeclOrder[Len(DeclOrder) + 1 - i]]
Destroyed(m) == \E i \in 1..destroyed : DestroyOrder[i] = m
NextMember == IF destroyed < Len(DestroyOrder) THEN DestroyOrder[destroyed + 1] ELSE "none"

Callers == Producers
Worker(i) == 10 + i
Spawned == {threads[i] : i \in 1..Len(threads)}
TryPopPcs == {"lock_head", "get_tail", "get_tail_ret", "pop_head", "unlock_head"}

SubmitProgram(c) == [k \in 1..MaxSubmit |-> {Call("submit", 10 * c + k)}]

\* ThreadPool(): done(false), joiner(threads), and the value that
\* std::thread::hardware_concurrency() returns (0 when it cannot tell)
PoolInit ==
  /\ QueueInit
  /\ ThreadInit
  /\ quota = [push |-> MaxSubmit, pop |-> 0]
  /\ todo = [t \in Threads |-> IF t \in Callers THEN SubmitProgram(t) ELSE <<>>]
  /\ done = FALSE
  /\ poolpc = "ctor"
  /\ thread_count \in 0..MaxHW
  /\ threads = <<>>
  /\ joined = 0
  /\ destroyed = 0
  /\ fut = [k \in Tasks |-> "none"]
  /\ invoked = EmptyBag
  /\ lateBy = [k \in Tasks |-> Free]
  /\ queuedAtStop = {}
  /\ pcAtStop = [w \in Workers |-> "none"]

\* what the history keeps when done becomes true
StopHistory ==
  /\ queuedAtStop' = {data[Queued[i]] : i \in 1..Len(Queued)}
  /\ pcAtStop' = [w \in Workers |-> pc[w]]

\* the constructor's loop: threads.push_back(std::thread(&worker_thread,this))
Spawn ==
  /\ poolpc = "ctor"
  /\ Len(threads) < thread_count
  /\ threads' = Append(threads, Worker(Len(threads) + 1))
  /\ pc' = [pc EXCEPT ![Worker(Len(threads) + 1)] = "loop"]
  /\ UNCHANGED <<qvars, op, todo, rets, quota, new_value, p, value, old_head, hvars>>
  /\ UNCHANGED <<done, poolpc, thread_count, joined, destroyed>>
  /\ UNCHANGED <<fut, invoked, lateBy, queuedAtStop, pcAtStop>>

\* a catch block that rethrows without setting the flag
SpawnFails_noFlag ==
  /\ poolpc = "ctor"
  /\ Len(threads) < thread_count
  /\ done' = done
  /\ poolpc' = "unwind"
  /\ StopHistory
  /\ UNCHANGED <<qvars, tvars, hvars>>
  /\ UNCHANGED <<thread_count, threads, joined, destroyed, fut, invoked, lateBy>>

\* std::thread's constructor throws: catch(...) { done=true; throw; }, and
\* the members are destroyed as the exception leaves the constructor
SpawnFails ==
  /\ poolpc = "ctor"
  /\ Len(threads) < thread_count
  /\ done' = TRUE
  /\ poolpc' = "unwind"
  /\ StopHistory
  /\ UNCHANGED <<qvars, tvars, hvars>>
  /\ UNCHANGED <<thread_count, threads, joined, destroyed, fut, invoked, lateBy>>

\* the constructor returns once the loop has run thread_count times
CtorReturn ==
  /\ poolpc = "ctor"
  /\ Len(threads) = thread_count
  /\ poolpc' = "running"
  /\ UNCHANGED <<qvars, tvars, hvars>>
  /\ UNCHANGED <<done, thread_count, threads, joined, destroyed>>
  /\ UNCHANGED <<fut, invoked, lateBy, queuedAtStop, pcAtStop>>

\* submit: the packaged_task, its future, and work_queue.push(std::move(task))
\* up to push's lock
Submit(c) ==
  /\ pc[c] = "idle"
  /\ poolpc = "running"
  /\ todo[c] # <<>>
  /\ quota.push > 0
  /\ \E call \in Head(todo[c]) :
       /\ fut' = [fut EXCEPT ![call.v] = "pending"]
       /\ new_value' = [new_value EXCEPT ![c] = call.v]
  /\ quota' = [quota EXCEPT !.push = @ - 1]
  /\ todo' = [todo EXCEPT ![c] = Tail(@)]
  /\ op' = [op EXCEPT ![c] = "push"]
  /\ nalloc' = [nalloc EXCEPT ![c] = @ + 1]
  /\ p' = [p EXCEPT ![c] = NewNode(c)]
  /\ pc' = [pc EXCEPT ![c] = "push_lock"]
  /\ UNCHANGED <<head, tail, data, next, head_mutex, tail_mutex, waiters>>
  /\ UNCHANGED <<rets, value, old_head, hvars>>
  /\ UNCHANGED <<done, poolpc, thread_count, threads, joined, destroyed>>
  /\ UNCHANGED <<invoked, lateBy, queuedAtStop, pcAtStop>>

\* a worker loop that never reads the flag: while(true)
WorkerLoop_forever(w) ==
  /\ pc[w] = "loop"
  /\ pc' = [pc EXCEPT ![w] = "lock_head"]
  /\ op' = [op EXCEPT ![w] = "try_pop_ref"]
  /\ value' = [value EXCEPT ![w] = NoValue]
  /\ UNCHANGED <<qvars, todo, rets, quota, new_value, p, old_head, hvars, pvars>>

\* worker_thread: while(!done) { FunctionWrapper task; if(work_queue.try_pop(task))
WorkerLoop(w) ==
  /\ pc[w] = "loop"
  /\ IF done
       THEN /\ pc' = [pc EXCEPT ![w] = "exited"]
            /\ UNCHANGED <<op, value>>
       ELSE /\ pc' = [pc EXCEPT ![w] = "lock_head"]
            /\ op' = [op EXCEPT ![w] = "try_pop_ref"]
            /\ value' = [value EXCEPT ![w] = NoValue]
  /\ UNCHANGED <<qvars, todo, rets, quota, new_value, p, old_head, hvars, pvars>>

\* worker_thread: task(), entered
WorkerInvoke(w) ==
  /\ pc[w] = "invoke"
  /\ invoked' = invoked (+) SetToBag({value[w]})
  /\ lateBy' = [k \in Tasks |-> IF done /\ k = value[w] THEN w ELSE lateBy[k]]
  /\ pc' = [pc EXCEPT ![w] = "executing"]
  /\ UNCHANGED <<qvars, op, todo, rets, quota, new_value, p, value, old_head, hvars>>
  /\ UNCHANGED <<done, poolpc, thread_count, threads, joined, destroyed>>
  /\ UNCHANGED <<fut, queuedAtStop, pcAtStop>>

\* the callables submitted: some return a value and some throw, each caller
\* submitting both kinds, one caller starting with the one and one with the other
TaskKind(k) == IF k % 2 = (k \div 10) % 2 THEN "returns" ELSE "throws"

\* what std::packaged_task stores in the shared state when the callable ends
Outcome(k) == IF TaskKind(k) = "throws" THEN "error" ELSE "value"

\* a loop that tests the flag only after an empty try_pop: do { ... } while
WorkerFinish_noTest(w) ==
  /\ pc[w] = "executing"
  /\ fut' = [k \in Tasks |-> IF k = value[w] THEN Outcome(k) ELSE fut[k]]
  /\ pc' = [pc EXCEPT ![w] = "lock_head"]
  /\ op' = [op EXCEPT ![w] = "try_pop_ref"]
  /\ value' = [value EXCEPT ![w] = NoValue]
  /\ UNCHANGED <<qvars, todo, rets, quota, new_value, p, old_head, hvars>>
  /\ UNCHANGED <<done, poolpc, thread_count, threads, joined, destroyed>>
  /\ UNCHANGED <<invoked, lateBy, queuedAtStop, pcAtStop>>

\* a task that is abandoned when the flag is set while it runs
WorkerFinish_abort(w) ==
  /\ pc[w] = "executing"
  /\ IF done
       THEN /\ pc' = [pc EXCEPT ![w] = "exited"]
            /\ UNCHANGED fut
       ELSE /\ pc' = [pc EXCEPT ![w] = "loop"]
            /\ fut' = [k \in Tasks |-> IF k = value[w] THEN Outcome(k) ELSE fut[k]]
  /\ value' = [value EXCEPT ![w] = NoValue]
  /\ UNCHANGED <<qvars, op, todo, rets, quota, new_value, p, old_head, hvars>>
  /\ UNCHANGED <<done, poolpc, thread_count, threads, joined, destroyed>>
  /\ UNCHANGED <<invoked, lateBy, queuedAtStop, pcAtStop>>

\* a callable's exception leaving task(): it leaves worker_thread too and
\* the thread ends, the future never set
WorkerFinish_escape(w) ==
  /\ pc[w] = "executing"
  /\ IF TaskKind(value[w]) = "throws"
       THEN /\ pc' = [pc EXCEPT ![w] = "exited"]
            /\ UNCHANGED fut
       ELSE /\ pc' = [pc EXCEPT ![w] = "loop"]
            /\ fut' = [k \in Tasks |-> IF k = value[w] THEN Outcome(k) ELSE fut[k]]
  /\ value' = [value EXCEPT ![w] = NoValue]
  /\ UNCHANGED <<qvars, op, todo, rets, quota, new_value, p, old_head, hvars>>
  /\ UNCHANGED <<done, poolpc, thread_count, threads, joined, destroyed>>
  /\ UNCHANGED <<invoked, lateBy, queuedAtStop, pcAtStop>>

\* worker_thread: task() returns, the packaged_task having stored the
\* callable's value or exception in the future; task is destroyed at the end
\* of the loop's body and the loop goes round
WorkerFinish(w) ==
  /\ pc[w] = "executing"
  /\ fut' = [k \in Tasks |-> IF k = value[w] THEN Outcome(k) ELSE fut[k]]
  /\ value' = [value EXCEPT ![w] = NoValue]
  /\ pc' = [pc EXCEPT ![w] = "loop"]
  /\ UNCHANGED <<qvars, op, todo, rets, quota, new_value, p, old_head, hvars>>
  /\ UNCHANGED <<done, poolpc, thread_count, threads, joined, destroyed>>
  /\ UNCHANGED <<invoked, lateBy, queuedAtStop, pcAtStop>>

\* worker_thread: std::this_thread::yield()
WorkerYield(w) ==
  /\ pc[w] = "yield"
  /\ pc' = [pc EXCEPT ![w] = "loop"]
  /\ UNCHANGED <<qvars, op, todo, rets, quota, new_value, p, value, old_head, hvars, pvars>>

\* ~ThreadPool() { done=true; }  The owner destroys the pool when no submit
\* is in progress.
DtorBody ==
  /\ poolpc = "running"
  /\ \A c \in Callers : pc[c] = "idle"
  /\ done' = TRUE
  /\ poolpc' = "dtor"
  /\ StopHistory
  /\ UNCHANGED <<qvars, tvars, hvars>>
  /\ UNCHANGED <<thread_count, threads, joined, destroyed, fut, invoked, lateBy>>

\* ~JoinThreads: if(threads[i].joinable()) threads[i].join(), which returns
\* when worker_thread has returned
JoinThread ==
  /\ poolpc \in {"dtor", "unwind"}
  /\ NextMember = "joiner"
  /\ joined < Len(threads)
  /\ pc[threads[joined + 1]] = "exited"
  /\ joined' = joined + 1
  /\ UNCHANGED <<qvars, tvars, hvars>>
  /\ UNCHANGED <<done, poolpc, thread_count, threads, destroyed>>
  /\ UNCHANGED <<fut, invoked, lateBy, queuedAtStop, pcAtStop>>

\* a packaged_task destroyed before it was called leaves its future with
\* the error broken_promise
Abandon(k) == k \in {data[Queued[i]] : i \in 1..Len(Queued)} /\ fut[k] = "pending"

\* a queue whose destructor leaves the chain, and the tasks in it, allocated
DestroyMember_leak ==
  /\ poolpc \in {"dtor", "unwind"}
  /\ NextMember # "none"
  /\ NextMember = "joiner" => joined = Len(threads)
  /\ destroyed' = destroyed + 1
  /\ IF NextMember = "work_queue"
       THEN /\ head' = Null
            /\ tail' = Null
            /\ UNCHANGED <<fut, data, next>>
       ELSE UNCHANGED <<fut, head, tail, data, next>>
  /\ poolpc' = IF destroyed + 1 < Len(DestroyOrder) THEN poolpc
               ELSE IF poolpc = "dtor" THEN "stopped" ELSE "failed"
  /\ UNCHANGED <<nalloc, head_mutex, tail_mutex, waiters, tvars, hvars>>
  /\ UNCHANGED <<done, thread_count, threads, joined>>
  /\ UNCHANGED <<invoked, lateBy, queuedAtStop, pcAtStop>>

\* the next member's destructor: ~JoinThreads ends when its loop has; the
\* queue's deletes the chain and the tasks in it; the last one ends the pool
DestroyMember ==
  /\ poolpc \in {"dtor", "unwind"}
  /\ NextMember # "none"
  /\ NextMember = "joiner" => joined = Len(threads)
  /\ destroyed' = destroyed + 1
  /\ IF NextMember = "work_queue"
       THEN /\ fut' = [k \in Tasks |-> IF Abandon(k) THEN "broken_promise" ELSE fut[k]]
            /\ head' = Null
            /\ tail' = Null
            /\ data' = [n \in 0..MaxNodes |-> NoValue]
            /\ next' = [n \in 0..MaxNodes |-> Null]
       ELSE UNCHANGED <<fut, head, tail, data, next>>
  /\ poolpc' = IF destroyed + 1 < Len(DestroyOrder) THEN poolpc
               ELSE IF poolpc = "dtor" THEN "stopped" ELSE "failed"
  /\ UNCHANGED <<nalloc, head_mutex, tail_mutex, waiters, tvars, hvars>>
  /\ UNCHANGED <<done, thread_count, threads, joined>>
  /\ UNCHANGED <<invoked, lateBy, queuedAtStop, pcAtStop>>

PoolNext ==
  \/ Spawn \/ SpawnFails \/ CtorReturn
  \/ \E c \in Callers :
       Submit(c) \/ PushLock(c) \/ PushLink(c) \/ PushNotify(c)
  \/ \E w \in Workers :
       \/ WorkerLoop(w)
       \/ LockHead(w) \/ GetTailLock(w) \/ TryPopTest(w)
       \/ PopHead(w) \/ PopReturn(w)
       \/ WorkerInvoke(w) \/ WorkerFinish(w) \/ WorkerYield(w)
  \/ DtorBody \/ JoinThread \/ DestroyMember

PoolSpec == PoolInit /\ [][PoolNext]_vars

\* ---------------------------------------------------------------- claims
RECURSIVE BagSum(_)
BagSum(S) ==
  IF S = {} THEN EmptyBag
  ELSE LET t == CHOOSE x \in S : TRUE
       IN SetToBag({Returns(t)}) (+) BagSum(S \ {t})

\* the values unlinked by a pop that has not returned yet
InFlight == BagSum({t \in Threads : pc[t] \in {"unlock_head", "ret_data"}})

\* C1: in every interleaving of pushes and pops, the bag of values pushed
\* equals the bag of values returned by pops plus those held by pops about
\* to return plus those still in the queue; so no value is returned twice
\* and none is returned that was not pushed.
C1_Conservation == pushed = returned (+) InFlight (+) InQueue

\* two values pushed concurrently have both been returned, by two pops
C1_Witness ==
  /\ BagIn(11, returned) /\ BagIn(21, returned)
  /\ \E t \in Producers : pc[t] \in {"push_link", "push_notify"}

\* C2: of two values pushed one after the other by the same thread, the
\* later one is never unlinked from the queue while the earlier one has not
\* been.
C2_ProducerOrder ==
  \A t \in Producers : \A k \in 1..MaxPush : \A j \in 1..MaxPush :
    (k < j /\ BagIn(10 * t + j, removed)) => BagIn(10 * t + k, removed)

\* both values of one producer were unlinked, the earlier one first, while
\* a value that another producer pushed meanwhile is in the queue
C2_Witness ==
  /\ BagIn(11, removed) /\ BagIn(12, removed)
  /\ BagIn(21, pushed) /\ BagIn(21, InQueue)
  /\ \E t \in Consumers : pc[t] \in {"unlock_head", "ret_data"} /\ Returns(t) = 12

\* C3: on one thread, after pushing v1..vN, the k-th try_pop returns vk, the
\* (N+1)-th returns no value, and empty() then returns true.
SeqN ==
  LET r == rets[Single]
      IsPush(c) == \E x \in c : x.op = "push"
  IN Cardinality({i \in 1..Len(r) : r[i].op = "push"})
       + Cardinality({i \in 1..Len(todo[Single]) : IsPush(todo[Single][i])})

C3_Sequential ==
  LET r == rets[Single]
  IN \A i \in 1..Len(r) :
       /\ i <= SeqN => r[i].op = "push"
       /\ (SeqN < i /\ i <= 2 * SeqN) =>
             r[i].op \in TryOps /\ r[i].ok /\ r[i].v = r[i - SeqN].v
       /\ i = 2 * SeqN + 1 => r[i].op \in TryOps /\ ~r[i].ok /\ r[i].v = NoValue
       /\ i = 2 * SeqN + 2 => r[i] = Result("empty", TRUE, NoValue)

\* the whole program has run, on at least two values that differ
C3_Witness ==
  /\ todo[Single] = <<>> /\ pc[Single] = "idle"
  /\ SeqN >= 2
  /\ Len(rets[Single]) = 2 * SeqN + 2
  /\ rets[Single][SeqN + 1].v # rets[Single][SeqN + 2].v

\* C4: a consumer blocked in wait_and_pop is woken for every push: it is
\* never asleep on the condition variable while the queue holds a value and
\* no push has its notify_one still to do.
C4_NoLostWakeup ==
  (pc[Waiter] = "cv_sleep" /\ head # tail) =>
     \E t \in Producers : pc[t] = "push_notify"

\* C4, as progress under fair scheduling: once a value is pushed, the
\* waiting consumer returns with a value.
C4_WaiterReturns ==
  (pushed # EmptyBag) ~> (pc[Waiter] = "idle" /\ returned # EmptyBag)

\* the mutex a thread is blocked on, and who holds a mutex
Wants(t) ==
  IF pc[t] \in {"push_lock", "get_tail"} THEN "tail"
  ELSE IF pc[t] \in {"lock_head", "cv_relock"} THEN "head" ELSE "none"

Holder(m) == IF m = "tail" THEN tail_mutex ELSE IF m = "head" THEN head_mutex ELSE Free

InPush(t) == pc[t] \in {"push_lock", "push_link", "push_notify"}

\* C5: push holds the tail lock only; no thread asks for the head lock
\* while it holds the tail lock; and no set of threads is deadlocked, each
\* blocked on a mutex that a thread of the set holds.
C5_NoDeadlock ==
  /\ \A t \in Threads : InPush(t) => head_mutex # t
  /\ \A t \in Threads : Wants(t) = "head" => tail_mutex # t
  /\ \A t \in Threads : Wants(t) = "tail" => tail_mutex # t
  /\ ~ \E S \in SUBSET {t \in Threads : Wants(t) # "none"} :
         /\ S # {}
         /\ \A t \in S : Holder(Wants(t)) \in S

\* a pop holds the head lock and waits for the tail lock, which a push
\* holds, while another pop and another push wait in turn
C5_Witness ==
  \E a \in Consumers : \E b \in Consumers : \E c \in Producers : \E d \in Producers :
    /\ head_mutex = a /\ Wants(a) = "tail"
    /\ tail_mutex = c
    /\ Wants(b) = "head"
    /\ Wants(d) = "tail"

\* ------------------------------------------------------ claims on the pool
\* the constructor goes on, the callers' pushes and the workers run, and the
\* joins and member destructors proceed; a mutex is handed to each thread
\* that keeps asking for it.  Nothing makes a caller submit, the owner
\* destroy the pool, or a thread fail to start.
CallerStep(c) == PushLink(c) \/ PushNotify(c)
WorkerStep(w) ==
  \/ WorkerLoop(w) \/ TryPopTest(w) \/ PopHead(w) \/ PopReturn(w)
  \/ WorkerInvoke(w) \/ WorkerFinish(w) \/ WorkerYield(w)
WorkerAcquire(w) == LockHead(w) \/ GetTailLock(w)

PoolFairSpec ==
  /\ PoolSpec
  /\ WF_vars(Spawn \/ CtorReturn)
  /\ WF_vars(JoinThread \/ DestroyMember)
  /\ \A c \in Callers : WF_vars(CallerStep(c)) /\ SF_vars(PushLock(c))
  /\ \A w \in Workers : WF_vars(WorkerStep(w)) /\ SF_vars(WorkerAcquire(w))

\* C6: while the pool stays Running, a submitted task whose callable returns
\* a value is eventually invoked and its future gets the value, and no task
\* is ever invoked twice.
C6_SubmitRuns ==
  /\ [](\A k \in Tasks : CopiesIn(k, invoked) <= 1)
  /\ \A k \in Tasks :
       (fut[k] = "pending" /\ TaskKind(k) = "returns") ~> (done \/ fut[k] = "value")

\* C6 for the pools that have a worker
C6_SubmitRunsWithWorkers == thread_count = 0 \/ C6_SubmitRuns

\* C7: the flag is set before any join, and every worker has exited before
\* the queue, the thread vector or the flag is destroyed, and when the pool
\* is Stopped.
C7_JoinedBeforeRelease ==
  /\ (joined > 0 \/ destroyed > 0) => done
  /\ (Destroyed("work_queue") \/ Destroyed("threads") \/ Destroyed("done")
        \/ poolpc \in {"stopped", "failed"})
       => \A w \in Spawned : pc[w] = "exited"

\* two workers, one of which ran a task, and the pool is Stopped
C7_Witness ==
  /\ poolpc = "stopped"
  /\ Len(threads) >= 2
  /\ invoked # EmptyBag

\* C8 as stated: a task in the queue when the flag is set is never invoked.
C8_QueuedNeverInvoked == \A k \in queuedAtStop : ~BagIn(k, invoked)

PoppingAtStop == {w \in Spawned : pcAtStop[w] \in TryPopPcs}

\* C8: a task in the queue when the flag is set is invoked only by a worker
\* whose try_pop was under way at that moment, and each such worker invokes at
\* most one of these tasks.
C8_OnlyByPoppingWorker ==
  \A k \in queuedAtStop :
    BagIn(k, invoked) =>
      /\ lateBy[k] \in PoppingAtStop
      /\ \A j \in queuedAtStop \ {k} : lateBy[j] # lateBy[k]

\* of two tasks queued when the flag was set, one was run and one never was
C8_Witness ==
  /\ poolpc = "stopped"
  /\ \E k \in queuedAtStop : \E j \in queuedAtStop :
       BagIn(k, invoked) /\ ~BagIn(j, invoked)

Completed(k) == fut[k] \in {"value", "error"}

\* C9: a worker exits only from the loop's test of the flag, read as true;
\* so a task that was entered and is not completed is still being run by a
\* worker that has not exited, and none is left when the pool is Stopped.
C9_ExitOnlyBetweenTasks ==
  /\ [][\A w \in Workers :
          (pc'[w] = "exited" /\ pc[w] # "exited") => (pc[w] = "loop" /\ done)]_vars
  /\ [](\A k \in Tasks :
          (BagIn(k, invoked) /\ ~Completed(k)) =>
             /\ \E w \in Spawned : pc[w] = "executing" /\ value[w] = k
             /\ poolpc # "stopped")

\* the flag was set while a worker was in a task; the worker went on to
\* complete the task and has exited
C9_Witness ==
  \E w \in Spawned : \E k \in Tasks :
    /\ pcAtStop[w] = "executing"
    /\ k \notin queuedAtStop
    /\ BagIn(k, invoked)
    /\ Completed(k)
    /\ pc[w] = "exited"
    /\ Len(threads) = 1

\* C10: a constructed pool has at least one worker.
C10_AtLeastOneWorker == poolpc = "running" => Len(threads) >= 1

\* C11: when a callable throws, the error goes to that task's future alone
\* and the worker goes back to the loop's test: no other future changes at
\* that step, and no worker has exited while the flag is false.
C11_ErrorContained ==
  /\ [][\A w \in Workers :
          (pc[w] = "executing" /\ pc'[w] # "executing"
             /\ TaskKind(value[w]) = "throws") =>
            /\ fut'[value[w]] = "error"
            /\ pc'[w] = "loop"
            /\ \A j \in Tasks \ {value[w]} : fut'[j] = fut[j]]_vars
  /\ [](\A w \in Spawned : pc[w] = "exited" => done)

\* C11, as progress under fair scheduling: once some task has failed, a
\* task that is pending is completed unless the pool is destroyed first.
C11_LaterTasksRun ==
  \A j \in Tasks :
    ((\E k \in Tasks : fut[k] = "error") /\ fut[j] = "pending")
       ~> (done \/ Completed(j))

\* the only worker ran a caller's throwing task and then the task the same
\* caller submitted next, which returned its value
C11_Witness ==
  /\ Len(threads) = 1
  /\ ~done
  /\ \E c \in Callers :
       /\ TaskKind(10 * c + 1) = "throws"
       /\ fut[10 * c + 1] = "error"
       /\ fut[10 * c + 2] = "value"

\* C12: when a worker thread fails to start, the flag is set, the workers
\* started before it have all exited and been joined before the queue is
\* released, and the pool goes from the failing constructor to destroyed
\* without ever being Running: nothing was submitted to it.
C12_CtorFailure ==
  /\ [](poolpc \in {"unwind", "failed"} =>
          /\ done
          /\ Len(threads) < thread_count
          /\ \A k \in Tasks : fut[k] = "none"
          /\ (Destroyed("work_queue") \/ poolpc = "failed") =>
                /\ joined = Len(threads)
                /\ \A w \in Spawned : pc[w] = "exited")
  /\ [][(poolpc \in {"unwind", "failed"}) => (poolpc' \in {"unwind", "failed"})]_vars

\* the second thread failed to start; the first, caught inside try_pop, has
\* exited and the members are destroyed
C12_Witness ==
  /\ poolpc = "failed"
  /\ Len(threads) = 1
  /\ pcAtStop[Worker(1)] \in TryPopPcs
  /\ pc[Worker(1)] = "exited"

\* the tasks that were in the queue when the flag was set and that no worker
\* took: they are in the queue until the queue is destroyed
Dropped == {k \in queuedAtStop : ~BagIn(k, invoked) /\ \A w \in Workers : value[w] # k}

\* C13 as stated: the future of a task dropped at teardown stays pending,
\* also after the queue and the task have been destroyed.
C13_DroppedStaysPending ==
  \A k \in queuedAtStop : ~BagIn(k, invoked) => fut[k] = "pending"

\* C13: a task never invoked gets neither a value nor its callable's error;
\* the future of a task dropped at teardown is pending while the queue
\* exists and holds the error broken_promise once the queue, and the task
\* in it, is destroyed.
C13_DroppedBrokenPromise ==
  /\ \A k \in Tasks : ~BagIn(k, invoked) => ~Completed(k)
  /\ \A k \in Tasks :
       fut[k] = "broken_promise" => Destroyed("work_queue") /\ k \in queuedAtStop
  /\ \A k \in Dropped :
       fut[k] = IF Destroyed("work_queue") THEN "broken_promise" ELSE "pending"

\* the pool is Stopped, a task of each kind was dropped
C13_Witness ==
  /\ poolpc = "stopped"
  /\ \E k \in Dropped : \E j \in Dropped :
       /\ TaskKind(k) # TaskKind(j)
       /\ fut[k] = "broken_promise" /\ fut[j] = "broken_promise"

\* the calls of the sequential client that came before its i-th
Before(i, P(_)) == Cardinality({j \in 1..(i - 1) : P(rets[Single][j])})
IsPushed(r) == r.op = "push"
IsPopped(r) == r.op \in PopOps /\ r.ok

\* C14: with no other operation in progress, empty() returns true exactly
\* when as many pops have succeeded as pushes have completed: true on the
\* new queue, false after a push, true again after the last value is popped.
C14_EmptyIffBalanced ==
  \A i \in 1..Len(rets[Single]) :
    rets[Single][i].op = "empty" =>
      (rets[Single][i].ok <=> (Before(i, IsPushed) = Before(i, IsPopped)))

\* empty() on the new queue, after a push, and after the pop of that value
C14_Witness ==
  /\ Len(rets[Single]) >= 5
  /\ rets[Single][1] = Result("empty", TRUE, NoValue)
  /\ rets[Single][2].op = "push"
  /\ rets[Single][3] = Result("empty", FALSE, NoValue)
  /\ IsPopped(rets[Single][4])
  /\ rets[Single][5] = Result("empty", TRUE, NoValue)

\* a try_pop that has read tail, under both locks, and finds head == tail
FindsEmpty(t) == op[t] \in TryOps /\ pc[t] = "get_tail_ret" /\ head = tail

\* C15: a try_pop that finds the queue empty returns at once, with a null
\* pointer / false and no value, never waiting on the condition variable,
\* and leaves head, tail, the chain and the caller's out-value as they were.
C15_TryPopOnEmpty ==
  /\ [][\A t \in Threads :
          (FindsEmpty(t) /\ pc'[t] # pc[t]) =>
            /\ pc'[t] = RetPc(t, FALSE) /\ op'[t] = "none"
            /\ t = Single =>
                 /\ Len(rets'[t]) = Len(rets[t]) + 1
                 /\ ~rets'[t][Len(rets'[t])].ok
                 /\ rets'[t][Len(rets'[t])].v = NoValue
            /\ waiters' = waiters
            /\ <<head, tail, data, next>>' = <<head, tail, data, next>>
            /\ value'[t] = value[t]
            /\ <<removed, returned>>' = <<removed, returned>>
            /\ head_mutex' = Free /\ tail_mutex' = Free]_vars
  /\ [](\A t \in Threads :
          op[t] \in TryOps => pc[t] \notin {"cv_wait", "cv_sleep", "cv_relock"})

\* a try_pop returned no value from a queue emptied by a pop, and the next
\* call, after a push, got the value pushed
C15_Witness ==
  \E i \in 1..Len(rets[Single]) :
    /\ i + 2 <= Len(rets[Single])
    /\ Before(i, IsPushed) = Before(i, IsPopped) /\ Before(i, IsPushed) > 0
    /\ rets[Single][i].op \in TryOps /\ ~rets[Single][i].ok
    /\ rets[Single][i + 1].op = "push"
    /\ IsPopped(rets[Single][i + 2])
    /\ rets[Single][i + 2].v = rets[Single][i + 1].v

\* the number of elements the queue holds: linked and not yet unlinked
Held == BagCardinality(pushed) - BagCardinality(removed)

\* C16: the chain from head has at least one node and no node twice; tail
\* is its last node, with no data and no next; every node before tail has
\* data; the chain has one node more than the queue holds elements, so
\* head == tail exactly when the queue holds none.
C16_ChainShape ==
  LET ch == Chain(head, MaxNodes + 1)
  IN /\ Len(ch) >= 1
     /\ \A i \in 1..Len(ch) : \A j \in 1..Len(ch) : ch[i] = ch[j] => i = j
     /\ ch[Len(ch)] = tail
     /\ data[tail] = NoValue /\ next[tail] = Null
     /\ \A i \in 1..(Len(ch) - 1) : data[ch[i]] \notin {NoValue, Moved}
     /\ Len(ch) = Held + 1
     /\ (head = tail) <=> (Held = 0)

\* a value is queued, another was popped before it, and a push is about to
\* link one more
C16_Witness ==
  /\ Len(Chain(head, MaxNodes + 1)) = 2
  /\ BagCardinality(removed) >= 1
  /\ \E t \in Producers : pc[t] = "push_link"

\* a thread inside try_pop, wait_and_pop or empty
InPop(t) == op[t] \in ConsumerOps

\* C17 as stated: no push waits for a mutex that a pop-family call holds,
\* and no pop-family call waits for a mutex that a push holds.
C17_NeverBlockEachOther ==
  \A t \in Threads : \A u \in Threads :
    (Wants(t) # "none" /\ Holder(Wants(t)) = u) =>
       /\ ~(InPush(t) /\ InPop(u))
       /\ ~(InPop(t) /\ InPush(u))

\* C17: a push never asks for nor holds the head lock.  The two kinds of
\* call meet on the tail lock only: a pop-family call holds it just for
\* get_tail's read of tail, a push just to link its node, and whoever holds
\* it waits for no mutex.
C17_MeetOnTailOnly ==
  /\ \A t \in Threads : InPush(t) => (head_mutex # t /\ Wants(t) # "head")
  /\ \A t \in Threads :
       LET u == Holder(Wants(t))
       IN (u \in Threads /\ ((InPush(t) /\ InPop(u)) \/ (InPop(t) /\ InPush(u))))
             => Wants(t) = "tail"
  /\ tail_mutex \in Threads =>
       /\ Wants(tail_mutex) = "none"
       /\ InPop(tail_mutex) => pc[tail_mutex] = "get_tail_ret"
       /\ InPush(tail_mutex) => pc[tail_mutex] = "push_link"

\* a push waits for the tail lock that a pop holds for its read of tail,
\* and another pop waits for the head lock behind it
C17_Witness ==
  \E t \in Producers : \E u \in Consumers : \E v \in Consumers :
    /\ pc[t] = "push_lock"
    /\ tail_mutex = u /\ op[u] \in PopOps
    /\ Wants(v) = "head"
    /\ pushed # EmptyBag

\* the nodes of the chain from head
ChainNodes == {Chain(head, MaxNodes + 1)[i] : i \in 1..Len(Chain(head, MaxNodes + 1))}

\* C18: when pop_head runs, under the head lock and after the tail lock was
\* released, head still differs from tail and its node has data and a
\* successor; head is never null and never past tail; and the node a pop
\* took is not the sentinel: the value it returns is a value pushed.
C18_PopHeadNeverOnEmpty ==
  LET taken == {old_head[t] : t \in {u \in Threads : pc[u] \in {"unlock_head", "ret_data"}}}
  IN /\ head # Null /\ tail \in ChainNodes
     /\ \A t \in Threads :
          pc[t] = "pop_head" =>
            /\ head_mutex = t /\ tail_mutex # t
            /\ head # tail
            /\ next[head] # Null
            /\ data[head] \notin {NoValue, Moved}
     /\ taken \cap (ChainNodes \cup {Null}) = {}
     /\ \A t \in Threads :
          pc[t] \in {"unlock_head", "ret_data"} => BagIn(Returns(t), pushed)

\* a pop took the only value, so head has reached tail, while a push holds
\* the tail lock to link the next value
C18_Witness ==
  \E t \in Consumers : \E u \in Producers :
    /\ pc[t] = "unlock_head"
    /\ head = tail
    /\ pc[u] = "push_link"
    /\ BagCardinality(removed) = 2

\* the node whose data and next a thread is about to write (push: the
\* current tail) or to read or move from (pop_head and the move before it:
\* head; the pointer overloads' return: old_head), Null when none
Writing(t) == IF pc[t] = "push_link" THEN tail ELSE Null
Reading(t) ==
  IF pc[t] = "pop_head" THEN head
  ELSE IF pc[t] = "ret_data" THEN old_head[t] ELSE Null

\* C19 as stated: push writes a node's fields only while it is the tail and
\* under the tail lock; a pop reads or moves them only under the head lock
\* and of a node that is not the tail; never both at once on one node.
C19_OnlyUnderLocks ==
  /\ \A t \in Threads : Writing(t) # Null => tail_mutex = t
  /\ \A t \in Threads : Reading(t) # Null => (head_mutex = t /\ Reading(t) # tail)
  /\ \A t \in Threads : \A u \in Threads :
       Writing(t) # Null => Writing(t) # Reading(u)

\* C19: push writes a node's fields only while it is the tail and under
\* the tail lock; a pop reads or moves them, of a node that is not the tail,
\* under the head lock or after it has unlinked the node, which no other
\* thread then reaches; never two threads at once on one node.
C19_NoRace ==
  LET W == {t \in Threads : Writing(t) # Null}
      R == {t \in Threads : Reading(t) # Null}
      unlinked == {old_head[t] : t \in {u \in R : pc[u] = "ret_data"}}
  IN /\ \A t \in W : tail_mutex = t
     /\ \A t \in R :
          /\ Reading(t) # tail
          /\ \/ head_mutex = t /\ Reading(t) = head
             \/ \A u \in Threads \ {t} : old_head[u] # Reading(t)
     /\ unlinked \cap ChainNodes = {}
     /\ \A t \in W : \A u \in R : Writing(t) # Reading(u)
     /\ \A t \in R : \A u \in R \ {t} : Reading(t) # Reading(u)
     /\ Cardinality(W) <= 1

\* a push is writing the tail node while one pop reads the node it took and
\* another is about to take the head
C19_Witness ==
  \E t \in Producers : \E u \in Consumers : \E v \in Consumers :
    /\ pc[t] = "push_link"
    /\ pc[u] = "ret_data"
    /\ pc[v] = "pop_head"
    /\ next[head] = tail

\* C20: under fair scheduling, once the flag is set every worker exits and
\* the pool's destruction ends, whatever is left in the queue; the flag is
\* never reset, and a pool that is shutting down or Stopped is never
\* Running again.
C20_DestructionTerminates ==
  /\ done ~> (poolpc \in {"stopped", "failed"} /\ \A w \in Spawned : pc[w] = "exited")
  /\ [][done => done']_vars
  /\ [][(poolpc \in {"dtor", "stopped"}) => (poolpc' \in {"dtor", "stopped"})]_vars
  /\ [][(poolpc = "stopped") => (poolpc' = "stopped")]_vars

\* the pool is Stopped with two workers, one of which ran a task after the
\* flag was set, and with a task left in the queue
C20_Witness ==
  /\ poolpc = "stopped"
  /\ Len(threads) = 2
  /\ \E k \in Tasks : lateBy[k] # Free
  /\ Dropped # {}

====
